---------------------------- MODULE Spec2Model ----------------------------
(***************************************************************************)
(* Model of scripts/merge_rss.py: fetch every configured feed, parse each  *)
(* document (RSS 2.0, Atom fallback), de-duplicate, annotate, sort newest  *)
(* first, truncate to MAX_ITEMS and write docs/rss.xml.                    *)
(*                                                                         *)
(* Text is modelled as a sequence of tokens.  A token is a record          *)
(* [k, t]: k names the piece of text and t carries the epoch second of a   *)
(* date token (0 for every other token).  Concatenation is \o, the empty   *)
(* string is << >>.                                                        *)
(***************************************************************************)
EXTENDS Integers, Sequences, FiniteSets

VARIABLES
    feeds,       \* what each configured URL answers: a fetch error or a document
    now,         \* the wall clock, in epoch seconds (time.time())
    pc,          \* position of main(): "fetch", "dedupe", "sort", "write", "done", "failed"
    idx,         \* index into FEEDS of the next feed of the loop at line 121
    all_items,   \* main's all_items
    unique,      \* main's unique
    output,      \* the items of docs/rss.xml as last written
    attempts,    \* per feed, the number of fetch() calls of the current run
    raised,      \* feeds whose parse_rss call raised in the current run
    run,         \* 1 for the first run of main(), 2 for a second run on the same feeds
    prevOutput,  \* the items the first run wrote, kept for comparing the runs
    annDesc,     \* a description string under the annotation step alone
    annCount     \* how often the annotation step was applied to annDesc

vars == <<feeds, now, pc, idx, all_items, unique, output, attempts, raised,
          run, prevOutput, annDesc, annCount>>

pipeVars == <<feeds, now, pc, idx, all_items, unique, output, attempts, raised,
              run, prevOutput>>

annVars == <<annDesc, annCount>>

---------------------------------------------------------------------------
(* Bounds and configuration *)

\* The configured feed list (the source lists one URL and invites more).
FEEDS == <<"feedA", "feedB">>

\* The cap of line 30, scaled down from 1000 so that truncation happens
\* with the few items a bounded feed list can deliver.
MAX_ITEMS == 2

\* Most entries of one feed document.
MaxEntries == 2

\* The clock reads Clock0 when the first run starts and never more than MaxClock.
Clock0 == 3

MaxClock == 4

\* Longest description string given to the annotation step on its own.
MaxDescLen == 3

Min(a, b) == IF a <= b THEN a ELSE b

---------------------------------------------------------------------------
(* Text *)

Txt(s) == [k |-> s, t |-> 0]

WS == Txt(" ")

NL == Txt("\n")

SourceMarker == Txt("(Source:")

Rfc2822(t) == [k |-> "rfc2822", t |-> t]

Iso8601(t) == [k |-> "iso8601", t |-> t]

IsSpace(tok) == tok = WS \/ tok = NL

RECURSIVE lstrip(_)
lstrip(s) ==
    IF s # << >> /\ IsSpace(Head(s)) THEN lstrip(Tail(s)) ELSE s

RECURSIVE rstrip(_)
rstrip(s) ==
    IF s # << >> /\ IsSpace(s[Len(s)]) THEN rstrip(SubSeq(s, 1, Len(s) - 1)) ELSE s

\* str.strip()
strip(s) == rstrip(lstrip(s))

\* tok in s
Contains(s, tok) == \E i \in 1..Len(s) : s[i] = tok

\* email.utils.formatdate(t, usegmt=True)
formatdate(t) == <<Rfc2822(t)>>


---------------------------------------------------------------------------
(* Feed documents *)

\* a or b on strings: the first when it is non-empty, else the second
Or(a, b) == IF a # << >> THEN a ELSE b

\* One <item> (RSS) or <entry> (Atom) element as it stands in the document.
\* link is the text of <link> (RSS) or its href attribute (Atom); linkNoHref
\* says the <link> element is there without an href attribute.  guid is the
\* entry's own identifier element (<guid> in RSS, <id> in Atom), date its
\* <pubDate> or <updated>, desc its <description> or <summary>.
Entry(title, link, linkNoHref, guid, date, desc) ==
    [title |-> title, link |-> link, linkNoHref |-> linkNoHref,
     guid |-> guid, date |-> date, desc |-> desc]

\* The <item> elements the bounded RSS documents are made of: one with a guid
\* of its own; one without guid whose link is that guid; one with neither
\* link nor guid and a date that is no RFC 2822 date; one with no child at all.
RssEntries ==
    { Entry(<<Txt("T1")>>, <<Txt("L2")>>, FALSE, <<Txt("L1")>>, <<Rfc2822(1)>>, <<Txt("x")>>),
      Entry(<<WS, Txt("T2")>>, <<Txt("L1"), WS>>, FALSE, <<WS>>, <<Rfc2822(2)>>,
            <<Txt("x"), SourceMarker, Txt("y")>>),
      Entry(<<Txt("T1")>>, << >>, FALSE, << >>, <<Txt("yesterday")>>, <<WS>>),
      Entry(<< >>, << >>, FALSE, << >>, << >>, << >>) }

\* The <entry> elements the bounded Atom documents are made of: one with an
\* <id> of its own and an ISO-8601 date; one with the same link and no
\* <updated>; one with neither link nor <id> and an RFC 2822 date; one whose
\* <link> has no href.
AtomEntries ==
    { Entry(<<Txt("T1")>>, <<Txt("L2")>>, FALSE, <<Txt("G1")>>, <<Iso8601(1)>>, <<Txt("x")>>),
      Entry(<<Txt("T2")>>, <<Txt("L2"), WS>>, FALSE, << >>, << >>, <<Txt("y"), NL>>),
      Entry(<<Txt("T1")>>, << >>, FALSE, << >>, <<Rfc2822(1)>>, << >>),
      Entry(<<Txt("T2")>>, << >>, TRUE, << >>, <<Iso8601(2)>>, <<Txt("y")>>) }

RECURSIVE SeqsUpTo(_, _)
SeqsUpTo(S, n) ==
    IF n = 0 THEN { << >> }
    ELSE LET shorter == SeqsUpTo(S, n - 1)
         IN  shorter \cup { Append(s, x) : s \in shorter, x \in S }

\* What a feed URL answers: "error" is a failed fetch (URLError, HTTPError, timeout),
\* "malformed" a body that is not well-formed XML, "rss" a document with a
\* <channel>, "atom" a well-formed document without one.
Responses ==
    { [status |-> "error", entries |-> << >>],
      [status |-> "malformed", entries |-> << >>] }
    \cup { [status |-> "rss", entries |-> es] : es \in SeqsUpTo(RssEntries, MaxEntries) }
    \cup { [status |-> "atom", entries |-> es] : es \in SeqsUpTo(AtomEntries, MaxEntries) }

FeedIds == 1..Len(FEEDS)

\* The clock readings of n successive time.time() calls starting at t0.
ClockReadings(t0, n) ==
    { c \in [1..n -> t0..MaxClock] : \A i \in 1..n : \A j \in i..n : c[i] <= c[j] }

---------------------------------------------------------------------------
(* parse_rss *)

\* RssItem with the test of line 91 lost: the date is always the clock's.
RssItemAlwaysNow(e, t, src) ==
    LET title == strip(e.title)
        link  == strip(e.link)
        pub   == strip(e.date)
        desc  == strip(e.desc)
        guid  == Or(strip(e.guid), Or(link, title \o pub))
    IN  [title |-> title, link |-> link, pubDate |-> formatdate(t),
         description |-> desc, guid |-> guid, src |-> src]

\* Lines 84-101: one RSS <item>, the clock reading t taken at line 93.
\* src is not a field of the program's dict: it records where the item came from.
RssItem(e, t, src) ==
    LET title == strip(e.title)
        link  == strip(e.link)
        pub   == strip(e.date)
        desc  == strip(e.desc)
        guid  == Or(strip(e.guid), Or(link, title \o pub))
    IN  [title |-> title, link |-> link,
         pubDate |-> IF pub = << >> THEN formatdate(t) ELSE pub,
         description |-> desc, guid |-> guid, src |-> src]

\* Lines 64-72: datetime.fromisoformat succeeds on an ISO-8601 string only.
IsoToRfc2822(updated) ==
    IF Len(updated) = 1 /\ updated[1].k = "iso8601"
    THEN formatdate(updated[1].t)
    ELSE updated

\* Lines 57-80: one Atom <entry> whose <link>, if any, has an href.
AtomItem(e, src) ==
    LET title   == strip(e.title)
        link    == strip(e.link)
        updated == strip(e.date)
        summary == strip(e.desc)
        guid    == Or(link, title \o updated)
    IN  [title |-> title, link |-> link, pubDate |-> IsoToRfc2822(updated),
         description |-> summary, guid |-> guid, src |-> src]

\* Line 59: link_el.get("href") is None for a <link> without href, and
\* None.strip() raises AttributeError out of parse_rss.
AtomRaises(entries) == \E i \in 1..Len(entries) : entries[i].linkNoHref

\* parse_rss(xml_text) for the document of feed f, clk[i] the clock reading
\* while entry i is parsed.  raised: an exception left parse_rss.
parse_rss(doc, clk, f) ==
    CASE doc.status = "rss" ->
            [raised |-> FALSE,
             items |-> [i \in 1..Len(doc.entries) |-> RssItem(doc.entries[i], clk[i], <<f, i>>)]]
      [] doc.status = "atom" /\ AtomRaises(doc.entries) ->
            [raised |-> TRUE, items |-> << >>]
      [] doc.status = "atom" /\ ~AtomRaises(doc.entries) ->
            [raised |-> FALSE,
             items |-> [i \in 1..Len(doc.entries) |-> AtomItem(doc.entries[i], <<f, i>>)]]
      [] OTHER -> [raised |-> FALSE, items |-> << >>]

---------------------------------------------------------------------------
(* as_epoch, build_guid_key *)

\* Lines 104-110: the epoch of an RFC 2822 date, 0 for any other string.
as_epoch(pub_date) ==
    IF Len(pub_date) = 1 /\ pub_date[1].k = "rfc2822" THEN pub_date[1].t ELSE 0

\* hashlib.sha1(base).hexdigest(): forty hex digits, taken as one-to-one.
Sha1Hex(base) == <<Txt("sha1:")>> \o base

\* Lines 112-114.
build_guid_key(item) ==
    Sha1Hex(Or(item.guid, Or(item.link, item.title \o item.pubDate)))

---------------------------------------------------------------------------
(* main: de-duplication, annotation, sort, cap *)

\* Annotate without the test of line 142: the marker is always appended.
AnnotateUnguarded(description) ==
    LET desc == strip(description)
    IN  IF desc # << >>
        THEN desc \o <<NL, SourceMarker, Txt(" GlobeNewswire)")>>
        ELSE <<SourceMarker, Txt(" GlobeNewswire)")>>

\* Lines 141-148: the description with the source marker at its end.
Annotate(description) ==
    LET desc == strip(description)
    IN  IF ~Contains(desc, SourceMarker)
        THEN IF desc # << >>
             THEN desc \o <<NL, SourceMarker, Txt(" GlobeNewswire)")>>
             ELSE <<SourceMarker, Txt(" GlobeNewswire)")>>
        ELSE desc

\* DedupeLoop with seen.add(key) of line 139 lost.
RECURSIVE DedupeLoopSeenNotUpdated(_, _, _)
DedupeLoopSeenNotUpdated(items, seen, acc) ==
    IF items = << >> THEN acc
    ELSE LET it  == Head(items)
             key == build_guid_key(it)
         IN  IF key \in seen
             THEN DedupeLoopSeenNotUpdated(Tail(items), seen, acc)
             ELSE DedupeLoopSeenNotUpdated(Tail(items), seen,
                             Append(acc, [it EXCEPT !.description = Annotate(@)]))

\* Lines 135-149: the loop over all_items, seen the keys met so far.
RECURSIVE DedupeLoop(_, _, _)
DedupeLoop(items, seen, acc) ==
    IF items = << >> THEN acc
    ELSE LET it  == Head(items)
             key == build_guid_key(it)
         IN  IF key \in seen
             THEN DedupeLoop(Tail(items), seen, acc)
             ELSE DedupeLoop(Tail(items), seen \cup {key},
                             Append(acc, [it EXCEPT !.description = Annotate(@)]))

\* One step of a stable sort, newest first: x goes behind every element
\* whose key is not smaller than its own.
RECURSIVE InsertNewestFirst(_, _)
InsertNewestFirst(sorted, x) ==
    IF sorted = << >> THEN <<x>>
    ELSE IF as_epoch(Head(sorted).pubDate) >= as_epoch(x.pubDate)
         THEN <<Head(sorted)>> \o InsertNewestFirst(Tail(sorted), x)
         ELSE <<x>> \o sorted

RECURSIVE SortFrom(_, _)
SortFrom(sorted, rest) ==
    IF rest = << >> THEN sorted
    ELSE SortFrom(InsertNewestFirst(sorted, Head(rest)), Tail(rest))

RECURSIVE InsertOldestFirst(_, _)
InsertOldestFirst(sorted, x) ==
    IF sorted = << >> THEN <<x>>
    ELSE IF as_epoch(Head(sorted).pubDate) <= as_epoch(x.pubDate)
         THEN <<Head(sorted)>> \o InsertOldestFirst(Tail(sorted), x)
         ELSE <<x>> \o sorted

RECURSIVE SortFromOldest(_, _)
SortFromOldest(sorted, rest) ==
    IF rest = << >> THEN sorted
    ELSE SortFromOldest(InsertOldestFirst(sorted, Head(rest)), Tail(rest))

\* The sort of line 152 with reverse=True lost: oldest first.
SortOldestFirst(items) == SortFromOldest(<< >>, items)

\* The sort of line 152 as an ascending stable sort whose result is then
\* reversed: newest first, the ties in reverse order.
SortThenReverse(items) ==
    LET up == SortFromOldest(<< >>, items)
    IN  [i \in 1..Len(up) |-> up[Len(up) + 1 - i]]

\* Line 152: list.sort(key=as_epoch of pubDate, reverse=True), a stable sort
\* in which reverse=True keeps equal keys in their original order.
SortNewestFirst(items) == SortFrom(<< >>, items)

\* Line 153: unique[:MAX_ITEMS]
Truncate(items) == SubSeq(items, 1, Min(Len(items), MAX_ITEMS))

\* Lines 152 and 153 in the wrong order: the cap is applied before the sort.
CapThenSort(items) ==
    SortFrom(<< >>, SubSeq(items, 1, Min(Len(items), MAX_ITEMS)))

\* Lines 151-153.
SortAndCap(items) == Truncate(SortNewestFirst(items))

\* Lines 164-173: the <item> written for it (src kept to tell where it came from).
Serialize(it) ==
    [title |-> it.title, link |-> it.link, guid |-> Or(it.guid, it.link),
     pubDate |-> it.pubDate, description |-> it.description, src |-> it.src]

---------------------------------------------------------------------------
(* The run of main() *)

Init ==
    /\ feeds \in [FeedIds -> Responses]
    /\ now = Clock0
    /\ pc = "fetch"
    /\ idx = 1
    /\ all_items = << >>
    /\ unique = << >>
    /\ output = << >>
    /\ attempts = [f \in FeedIds |-> 0]
    /\ raised = {}
    /\ run = 1
    /\ prevOutput = << >>
    /\ annDesc = << >>
    /\ annCount = 0

\* What the loop body of lines 122-130 leaves in all_items for feed f, the
\* clock readings clk taken while it runs.
AfterFeed(items, f, doc, clk) ==
    IF doc.status = "error"
    THEN items
    ELSE LET r == parse_rss(doc, clk, f)
         IN  IF r.raised THEN items ELSE items \o r.items

\* The loop of lines 121-130 without its except clauses: a failed fetch ends
\* the run.
FetchFeedAbortsOnError ==
    /\ pc = "fetch"
    /\ idx <= Len(FEEDS)
    /\ \E clk \in ClockReadings(now, MaxEntries) :
          /\ all_items' = AfterFeed(all_items, idx, feeds[idx], clk)
          /\ raised' = IF feeds[idx].status # "error" /\ parse_rss(feeds[idx], clk, idx).raised
                       THEN raised \cup {idx} ELSE raised
          /\ now' = clk[MaxEntries]
    /\ attempts' = [attempts EXCEPT ![idx] = @ + 1]
    /\ idx' = idx + 1
    /\ pc' = IF feeds[idx].status = "error" THEN "failed" ELSE pc
    /\ UNCHANGED <<feeds, unique, output, run, prevOutput, annVars>>

\* Lines 121-130, one turn of the loop: fetch the feed, parse it, extend
\* all_items; any exception skips the feed.
FetchFeed ==
    /\ pc = "fetch"
    /\ idx <= Len(FEEDS)
    /\ \E clk \in ClockReadings(now, MaxEntries) :
          /\ all_items' = AfterFeed(all_items, idx, feeds[idx], clk)
          /\ raised' = IF feeds[idx].status # "error" /\ parse_rss(feeds[idx], clk, idx).raised
                       THEN raised \cup {idx} ELSE raised
          /\ now' = clk[MaxEntries]
    /\ attempts' = [attempts EXCEPT ![idx] = @ + 1]
    /\ idx' = idx + 1
    /\ UNCHANGED <<feeds, pc, unique, output, run, prevOutput, annVars>>

\* Line 121: the list of feeds is exhausted.
EndFetch ==
    /\ pc = "fetch"
    /\ idx > Len(FEEDS)
    /\ pc' = "dedupe"
    /\ UNCHANGED <<feeds, now, idx, all_items, unique, output, attempts, raised,
                   run, prevOutput, annVars>>

\* Lines 132-149.
Dedupe ==
    /\ pc = "dedupe"
    /\ unique' = DedupeLoop(all_items, {}, << >>)
    /\ pc' = "sort"
    /\ UNCHANGED <<feeds, now, idx, all_items, output, attempts, raised,
                   run, prevOutput, annVars>>

\* Lines 151-153.
SortTruncate ==
    /\ pc = "sort"
    /\ unique' = SortAndCap(unique)
    /\ pc' = "write"
    /\ UNCHANGED <<feeds, now, idx, all_items, output, attempts, raised,
                   run, prevOutput, annVars>>

\* Lines 155-181, the file written.
WriteOk ==
    /\ pc = "write"
    /\ output' = [i \in 1..Len(unique) |-> Serialize(unique[i])]
    /\ pc' = "done"
    /\ UNCHANGED <<feeds, now, idx, all_items, unique, attempts, raised,
                   run, prevOutput, annVars>>

\* Lines 177-181: os.makedirs or ElementTree.write raises; main ends by the
\* exception and the file keeps what it held.
WriteFail ==
    /\ pc = "write"
    /\ pc' = "failed"
    /\ UNCHANGED <<feeds, now, idx, all_items, unique, output, attempts, raised,
                   run, prevOutput, annVars>>

\* Lines 183-184: main() is run once more, at a later time, the feeds
\* answering as before.
Rerun ==
    /\ pc = "done"
    /\ run = 1
    /\ \E t \in (now + 1)..MaxClock : now' = t
    /\ run' = 2
    /\ prevOutput' = output
    /\ pc' = "fetch"
    /\ idx' = 1
    /\ all_items' = << >>
    /\ unique' = << >>
    /\ attempts' = [f \in FeedIds |-> 0]
    /\ raised' = {}
    /\ UNCHANGED <<feeds, output, annVars>>

RunStep == FetchFeed \/ EndFetch \/ Dedupe \/ SortTruncate \/ WriteOk \/ WriteFail

Next == RunStep \/ Rerun

Spec == Init /\ [][Next]_vars

\* The start of a run on feeds whose documents are one entry short of
\* MaxEntries, which keeps the search for a run that never ends small (what
\* the loop does to a feed that fails does not depend on the length of the
\* documents).
InitFair ==
    /\ Init
    /\ \A f \in FeedIds : Len(feeds[f].entries) < MaxEntries

\* One run of main().  It is sequential code: a step that can be taken is taken.
FairSpec == InitFair /\ [][RunStep]_vars /\ WF_vars(RunStep)

---------------------------------------------------------------------------
(* The annotation step on its own *)

DescTokens == {WS, NL, Txt("x"), SourceMarker}

InitAnnotate ==
    /\ feeds = [f \in FeedIds |-> [status |-> "error", entries |-> << >>]]
    /\ now = Clock0
    /\ pc = "fetch"
    /\ idx = 1
    /\ all_items = << >>
    /\ unique = << >>
    /\ output = << >>
    /\ attempts = [f \in FeedIds |-> 0]
    /\ raised = {}
    /\ run = 1
    /\ prevOutput = << >>
    /\ annDesc \in SeqsUpTo(DescTokens, MaxDescLen)
    /\ annCount = 0

\* Lines 141-148 applied to annDesc, at most twice.
ApplyAnnotate ==
    /\ annCount < 2
    /\ annDesc' = Annotate(annDesc)
    /\ annCount' = annCount + 1
    /\ UNCHANGED pipeVars

NextAnnotate == ApplyAnnotate

SpecAnnotate == InitAnnotate /\ [][NextAnnotate]_vars

---------------------------------------------------------------------------
(* Vocabulary of the properties *)

\* The entry of the feed document an item was parsed from.
EntryOf(it) == feeds[it.src[1]].entries[it.src[2]]

\* a was met before b in the concatenation of the feeds' items.
MetBefore(a, b) ==
    \/ a.src[1] < b.src[1]
    \/ a.src[1] = b.src[1] /\ a.src[2] < b.src[2]

\* The positions of all_items that hold the first item of their key.
FirstOfKey ==
    { i \in 1..Len(all_items) :
        \A j \in 1..(i - 1) : build_guid_key(all_items[j]) # build_guid_key(all_items[i]) }

\* The positions of a list of items that hold key k.
WithKey(items, k) == { j \in 1..Len(items) : build_guid_key(items[j]) = k }

\* The item of position i of all_items is the first of its key.
FirstWithKey(k) ==
    CHOOSE i \in FirstOfKey : build_guid_key(all_items[i]) = k

Keys == { build_guid_key(all_items[i]) : i \in 1..Len(all_items) }

\* The fields of a written item.
Written(it) ==
    [title |-> it.title, link |-> it.link, guid |-> it.guid,
     pubDate |-> it.pubDate, description |-> it.description]

---------------------------------------------------------------------------
(* C1: de-duplication *)

\* C1 as stated: once the feed is written, every key among the collected
\* items is held by exactly one written item, the one met first, and no two
\* written items share a key.
C1_ExactlyOneSurvives ==
    pc = "done" =>
        \A k \in Keys :
            /\ Cardinality(WithKey(output, k)) = 1
            /\ \A j \in WithKey(output, k) : output[j].src = all_items[FirstWithKey(k)].src

\* C1, amended: after the de-duplication loop every key among the collected
\* items is held by exactly one item of unique, the one met first; in the
\* written feed every key is held by at most one item, which is the one met
\* first, and by exactly one when no more than MAX_ITEMS keys were collected.
C1_FirstOfKeySurvives ==
    /\ pc = "sort" =>
          \A k \in Keys :
              /\ Cardinality(WithKey(unique, k)) = 1
              /\ \A j \in WithKey(unique, k) : unique[j].src = all_items[FirstWithKey(k)].src
    /\ pc = "done" =>
          /\ \A k \in Keys :
                /\ Cardinality(WithKey(output, k)) <= 1
                /\ \A j \in WithKey(output, k) : output[j].src = all_items[FirstWithKey(k)].src
                /\ Cardinality(Keys) <= MAX_ITEMS => Cardinality(WithKey(output, k)) = 1
          /\ \A j \in 1..Len(output) : build_guid_key(output[j]) \in Keys

\* Two feeds delivered items of one key, and the written feed holds that key.
C1_Witness ==
    /\ pc = "done"
    /\ \E i, j \in 1..Len(all_items) :
          /\ all_items[i].src[1] < all_items[j].src[1]
          /\ build_guid_key(all_items[i]) = build_guid_key(all_items[j])
          /\ WithKey(output, build_guid_key(all_items[i])) # {}

---------------------------------------------------------------------------
(* C2: newest first *)

\* C2: in the written feed the publish time of an item is never smaller
\* than that of the item behind it, unparseable and absent dates included.
C2_NewestFirst ==
    /\ pc = "write" =>
          \A i \in 1..(Len(unique) - 1) :
              as_epoch(unique[i].pubDate) >= as_epoch(unique[i + 1].pubDate)
    /\ pc = "done" =>
          \A i \in 1..(Len(output) - 1) :
              as_epoch(output[i].pubDate) >= as_epoch(output[i + 1].pubDate)

\* The written feed holds a dated item in front of an item without a
\* parseable date, and the dated one was met later.
C2_Witness ==
    /\ pc = "done"
    /\ \E i \in 1..Len(output) : \E j \in (i + 1)..Len(output) :
          /\ as_epoch(output[i].pubDate) > 0
          /\ Len(output[j].pubDate) # 1 \/ output[j].pubDate[1].k # "rfc2822"
          /\ MetBefore(output[j], output[i])

---------------------------------------------------------------------------
(* C3: the cap *)

\* The collected items that the written feed does not hold although they are
\* the first of their key.
Dropped == { i \in FirstOfKey : \A j \in 1..Len(output) : output[j].src # all_items[i].src }

\* a stands in front of b in the list sorted newest first.
SortsBefore(a, b) ==
    \/ as_epoch(a.pubDate) > as_epoch(b.pubDate)
    \/ as_epoch(a.pubDate) = as_epoch(b.pubDate) /\ MetBefore(a, b)

\* C3: the written feed holds at most MAX_ITEMS items, namely the first
\* MAX_ITEMS of the de-duplicated list sorted newest first: as many as there
\* are keys up to the cap, and every item left out sorts behind every item kept.
C3_CapAfterSort ==
    pc = "done" =>
        /\ Len(output) <= MAX_ITEMS
        /\ Len(output) = Min(Cardinality(FirstOfKey), MAX_ITEMS)
        /\ \A d \in Dropped : \A j \in 1..Len(output) : SortsBefore(output[j], all_items[d])

\* More keys than the cap were collected, and an item left out was met
\* before an item that was kept.
C3_Witness ==
    /\ pc = "done"
    /\ Cardinality(FirstOfKey) > MAX_ITEMS
    /\ Len(output) = MAX_ITEMS
    /\ \E d \in Dropped : \E j \in 1..Len(output) : MetBefore(all_items[d], output[j])

---------------------------------------------------------------------------
(* C10: ties *)

\* C10: two written items of equal publish time, or both without a parseable
\* date, stand in the order in which they were met.
C10_StableTies ==
    pc = "done" =>
        \A i \in 1..Len(output) : \A j \in (i + 1)..Len(output) :
            as_epoch(output[i].pubDate) = as_epoch(output[j].pubDate)
                => MetBefore(output[i], output[j])

\* The written feed holds two items of one parseable date.
C10_Witness ==
    /\ pc = "done"
    /\ \E i \in 1..Len(output) : \E j \in (i + 1)..Len(output) :
          /\ as_epoch(output[i].pubDate) = as_epoch(output[j].pubDate)
          /\ as_epoch(output[i].pubDate) > 0

---------------------------------------------------------------------------
(* C4: parse resilience *)

\* The items in all_items that came from feed f.
ItemsFrom(f) == { i \in 1..Len(all_items) : all_items[i].src[1] = f }

\* The feeds the loop has been through.
Visited == { f \in FeedIds : pc # "fetch" \/ f < idx }

\* C4: parse_rss never raises; a malformed document contributes no item, and
\* every entry of every other fetched document is collected.
C4_ParseNeverRaises ==
    /\ raised = {}
    /\ \A f \in Visited :
          /\ feeds[f].status = "malformed" => ItemsFrom(f) = {}
          /\ (feeds[f].status \in {"rss", "atom"} /\ f \notin raised)
                => Cardinality(ItemsFrom(f)) = Len(feeds[f].entries)

---------------------------------------------------------------------------
(* C5: fetch resilience *)

\* Every feed the loop has been through was fetched once, the others not yet.
AttemptedOnce ==
    \A f \in FeedIds : attempts[f] = IF f \in Visited THEN 1 ELSE 0

\* C5: whichever fetches fail, each feed is fetched exactly once, the run
\* fails nowhere but in the write stage, and it always comes to its end
\* there.
C5_FetchResilience ==
    /\ []AttemptedOnce
    /\ [][pc' = "failed" => pc = "write"]_vars
    /\ <>(pc \in {"done", "failed"})

\* The first feed could not be fetched, and the feed was written with the
\* items of a later one.
C5_Witness ==
    /\ pc = "done"
    /\ feeds[1].status = "error"
    /\ output # << >>
    /\ \A f \in FeedIds : attempts[f] = 1

---------------------------------------------------------------------------
(* C6: missing date *)

IsClockDate(pub) == \E t \in Clock0..MaxClock : pub = formatdate(t)

\* C6: every collected item of an entry without a date, RSS or Atom, carries
\* a date made from the clock.
C6_MissingDateIsNow ==
    \A i \in 1..Len(all_items) :
        strip(EntryOf(all_items[i]).date) = << >> => IsClockDate(all_items[i].pubDate)

---------------------------------------------------------------------------
(* C7: two runs *)

WrittenItems(items) == [i \in 1..Len(items) |-> Written(items[i])]

\* C7 as stated: a second run on the same feeds writes the items the first
\* run wrote.
C7_SameItemsTwice ==
    (pc = "done" /\ run = 2) => WrittenItems(output) = WrittenItems(prevOutput)

\* No item of an RSS document lacks its pubDate.
EveryRssItemDated ==
    \A f \in FeedIds :
        feeds[f].status = "rss" =>
            \A i \in 1..Len(feeds[f].entries) : strip(feeds[f].entries[i].date) # << >>

\* C7, amended: a second run on the same feeds, answering as before, writes
\* the items the first run wrote, provided no RSS item lacks its pubDate.
C7_SameItemsTwiceWhenDated ==
    (pc = "done" /\ run = 2 /\ EveryRssItemDated)
        => WrittenItems(output) = WrittenItems(prevOutput)

\* A second run has written two or more items, an RSS item among them.
C7_Witness ==
    /\ pc = "done"
    /\ run = 2
    /\ EveryRssItemDated
    /\ Len(output) >= 2
    /\ \E j \in 1..Len(output) : feeds[output[j].src[1]].status = "rss"

---------------------------------------------------------------------------
(* C8: annotation *)

\* C8: a description that went through the annotation step holds a source
\* marker and is left as it is by the step applied once more.
C8_AnnotateIdempotent ==
    annCount >= 1 => (Annotate(annDesc) = annDesc /\ Contains(annDesc, SourceMarker))

\* The step was applied twice to a description of two words that held no
\* marker: it holds the two words and, once, the appended marker.
C8_Witness ==
    /\ annCount = 2
    /\ Len(annDesc) = 5
    /\ annDesc[1] = Txt("x")
    /\ annDesc[2] = Txt("x")
    /\ annDesc[4] = SourceMarker

---------------------------------------------------------------------------
(* C9: guid resolution *)

\* The guid the resolution order gives an entry: its own identifier, else
\* its link, else its title followed by its date string.
ResolvedGuid(e) ==
    Or(strip(e.guid), Or(strip(e.link), strip(e.title) \o strip(e.date)))

\* C9: every parsed item, RSS or Atom, has the guid of the resolution order,
\* and its de-duplication key is not empty.
C9_GuidResolution ==
    \A i \in 1..Len(all_items) :
        /\ all_items[i].guid = ResolvedGuid(EntryOf(all_items[i]))
        /\ build_guid_key(all_items[i]) # << >>

============================================================================
